---- MODULE Spec2Model ----
(***************************************************************************)
(* Model of post-approver-bot (src/main.go): one sequential consumer of    *)
(* the Telegram update stream, a single "currentPost" slot, a 24-hour      *)
(* ttlcache of skipped guids with its background expiry sweeper, and the   *)
(* Airtable table the decisions are written to.                            *)
(*                                                                         *)
(* Time is counted in hours.  Every record of the table carries a unique   *)
(* guid, so a record and its guid are identified.                          *)
(***************************************************************************)
EXTENDS Integers, Sequences, FiniteSets, TLC

\* ---------------------------------------------------------------- bounds
NumRecords == 2          \* records in the Airtable view
MaxTicks == 3            \* clock advances the model follows
MaxOrders == 32          \* longest slice handed to addOrders / updateOrders

\* ------------------------------------------------------- program constants
TTL == 24                \* ttlcache.WithTTL(24 * time.Hour), in hours

maxUpdates == 10         \* const maxUpdates = 10

TickStep == TTL \div 2
MaxTime == MaxTicks * TickStep

Ids == 1..NumRecords
Nil == 0                 \* currentPost == nil

\* chat ids that send updates: the configured id and a stranger (the handlers
\* read the sender only through the white-list test)
Senders == {1, 2}

\* TELEGRAM_WHITELIST values the process is started with (already split on
\* "," and parsed by strconv.ParseInt)
Configs == {<<1>>}

\* ------------------------------------------------------------ env.New
RECURSIVE Zeros(_)
Zeros(n) == IF n = 0 THEN <<>> ELSE <<0>> \o Zeros(n - 1)

\* whiteListIDs := make([]int64, len(s)); then append(whiteListIDs, i) for
\* every parsed token: the slice keeps its len(s) leading zero values.
EnvNew(cfg) == Zeros(Len(cfg)) \o cfg

\* helpers.IDContains(list, id)
IDContains(list, id) == \E i \in 1..Len(list) : list[i] = id

\* ------------------------------------------------------------ buttons
\* a message text is written <<emoji, word>>: the labels are an emoji, a
\* space and a word
ApproveButton == <<"check_mark", "Approve">>

SkipButton == <<"eyes", "Skip">>

RejectButton == <<"cross_mark", "Reject">>

\* func (b Button) Text() string
ButtonText(b) == b

\* the texts an operator sends: the three labels, and near misses (the word
\* without its emoji, the word in lower case)
Texts == {ApproveButton, SkipButton, RejectButton, <<"", "Approve">>, <<"eyes", "skip">>}

NoText == <<>>

\* variant of the case test that compares the word only
CaseMatches_WordOnly(text, label) == text[2] = label[2]

\* switch update.Message.Text { case label: ... }: string equality
CaseMatches(text, label) == text = label

\* ------------------------------------------------------------ Airtable
Fields == [IsApproved : BOOLEAN, IsRejected : BOOLEAN, ToInvistigate : BOOLEAN]

\* the records the table starts with: unprocessed, approved, rejected or
\* under investigation
InitFields == {f \in Fields : Cardinality({x \in DOMAIN f : f[x]}) <= 1}

\* AND({ToInvistigate} = 0, {IsApproved} = 0, {IsRejected} = 0)
FilterFormula(f) == ~f.ToInvistigate /\ ~f.IsApproved /\ ~f.IsRejected

\* table.GetRecords().FromView("view_1")...Do(): the records passing the
\* filter, in the order of the view (ascending record number)
RECURSIVE ViewFrom(_, _)
ViewFrom(tbl, i) ==
    IF i > NumRecords THEN <<>>
    ELSE (IF FilterFormula(tbl[i]) THEN <<i>> ELSE <<>>) \o ViewFrom(tbl, i + 1)

GetRecords(tbl) == ViewFrom(tbl, 1)

\* ------------------------------------------------------------ ttlcache
\* cache.Has(key)
CacheHas(c, key) == key \in DOMAIN c

\* variants of Set: the item expires at once / after half the TTL
CacheSet_NoTTL(c, key, t) == [k \in (DOMAIN c) \cup {key} |-> IF k = key THEN t ELSE c[k]]

CacheSet_HalfTTL(c, key, t) ==
    [k \in (DOMAIN c) \cup {key} |-> IF k = key THEN t + (TTL \div 2) ELSE c[k]]

\* cache.Set(key, true, ttlcache.DefaultTTL) at time t
CacheSet(c, key, t) == [k \in (DOMAIN c) \cup {key} |-> IF k = key THEN t + TTL ELSE c[k]]

\* variant of the expiry test that holds for every item
IsExpired_Always(c, key, t) == TRUE

\* an item is expired once the clock is past its expiresAt
IsExpired(c, key, t) == t > c[key]

\* ------------------------------------------------------------ the scan
\* for i, record := range records.Records { if cache.Has(guid) {continue};
\*   currentPost = records.Records[i]; break }
\* variant of the scan without the break: the last record that is not in the
\* cache wins
RECURSIVE ScanFrom_NoBreak(_, _, _, _)
ScanFrom_NoBreak(recs, c, i, cur) ==
    IF i > Len(recs) THEN cur
    ELSE IF CacheHas(c, recs[i]) THEN ScanFrom_NoBreak(recs, c, i + 1, cur)
    ELSE ScanFrom_NoBreak(recs, c, i + 1, recs[i])

RECURSIVE ScanFrom(_, _, _, _)
ScanFrom(recs, c, i, cur) ==
    IF i > Len(recs) THEN cur
    ELSE IF CacheHas(c, recs[i]) THEN ScanFrom(recs, c, i + 1, cur)
    ELSE recs[i]

\* variant of the fetch that keeps a pending post
SelectPost_KeepPending(recs, c, cur) == IF cur # Nil THEN cur ELSE ScanFrom(recs, c, 1, cur)

\* variant of the scan that takes the first record whatever the cache holds
SelectPost_NoFilter(recs, c, cur) == IF Len(recs) > 0 THEN recs[1] ELSE cur

SelectPost(recs, c, cur) == ScanFrom(recs, c, 1, cur)

\* ------------------------------------------------------------ state
VARIABLES
    whiteList,      \* envVars.TelegramWhiteList
    table,          \* the Airtable records: guid -> the three boolean fields
    currentPost,    \* var currentPost *airtable.Record (Nil or a guid)
    cache,          \* ttlcache: guid -> expiresAt
    now,            \* wall clock, hours
    crashed,        \* the process has panicked
    last,           \* observation of the last update taken from the channel
    skippedAt,      \* history: time of the latest skip of each guid, -1 if none
    msgText,        \* update.Message.Text of the text message last handled
    awaiting,       \* history: the guid shown by a fetch that no decision event
                    \* has followed yet, Nil otherwise
    im              \* the IndexMgr of a batch loop, its slice length n, the place
                    \* in the loop and the intervals [From, To) used so far

botVars == <<whiteList, table, currentPost, cache, now, crashed, last, skippedAt, msgText,
             awaiting>>

vars == <<whiteList, table, currentPost, cache, now, crashed, last, skippedAt, msgText,
          awaiting, im>>

\* no batch loop is running
ImIdle == [pc |-> "idle", n |-> 0, From |-> 0, To |-> 0, Last |-> 0, used |-> <<>>]

EmptyCache == [k \in {} |-> 0]

NoReply == "none"

\* what the last step did; for one pass of the loop body: the update, whether
\* its sender passed the white-list test, the slot before it, the
\* text handed to bot.Send, the guid shown in it, whether the keyboard was
\* attached, the outcome of bot.Send, the Airtable calls issued and the
\* error met ("query_failed", "update_failed", "nil_deref" or "none")
Obs(kind, from, reply, shown, kb, sent, q, u, fault) ==
    [kind |-> kind, authorized |-> IDContains(whiteList, from), prev |-> currentPost,
     reply |-> reply,
     shown |-> shown, keyboard |-> kb, sent |-> sent, queries |-> q, updates |-> u,
     fault |-> fault]

\* a panic before bot.Send is reached
Panicked(kind, from, q, u, fault) == Obs(kind, from, NoReply, Nil, FALSE, "none", q, u, fault)

\* if _, err := bot.Send(msg); err != nil { log.Panic(err) }
SendResult(sendOk) == IF sendOk THEN "ok" ELSE "failed"

\* variant of the send check that only logs the error
SendPanics_LogOnly(sendOk) == FALSE

\* ... err != nil { log.Panic(err) }: the process dies when the send fails
SendPanics(sendOk) == ~sendOk

Init ==
    /\ whiteList \in {EnvNew(cfg) : cfg \in Configs}
    /\ table \in [Ids -> InitFields]
    /\ currentPost = Nil
    /\ cache = EmptyCache
    /\ now = 0
    /\ crashed = FALSE
    /\ last = Obs("init", 0, NoReply, Nil, FALSE, "none", 0, 0, "none")
    /\ skippedAt = [i \in Ids |-> -1]
    /\ msgText = NoText
    /\ awaiting = Nil
    /\ im = ImIdle

\* ------------------------------------------------------------ the loop
\* update.FromChat() is nil for an update that carries no chat (inline
\* query, poll, ...): update.FromChat().ID panics
NoChatUpdate ==
    /\ ~crashed
    /\ crashed' = TRUE
    /\ last' = Panicked("nochat", 0, 0, 0, "nil_deref")
    /\ UNCHANGED <<whiteList, table, currentPost, cache, now, skippedAt>>
    /\ msgText' = NoText
    /\ UNCHANGED awaiting
    /\ UNCHANGED im

\* if !helpers.IDContains(whitelist, update.FromChat().ID) { log; continue }
DropUnknownUser(from) ==
    /\ ~crashed
    /\ ~IDContains(whiteList, from)
    /\ last' = Obs("drop", from, NoReply, Nil, FALSE, "none", 0, 0, "none")
    /\ UNCHANGED <<whiteList, table, currentPost, cache, now, crashed, skippedAt>>
    /\ msgText' = NoText
    /\ UNCHANGED awaiting
    /\ UNCHANGED im

\* an update of a white-listed chat whose Message is nil (edited message,
\* channel post, callback): update.Message.Chat.ID panics
NonMessageUpdate(from) ==
    /\ ~crashed
    /\ IDContains(whiteList, from)
    /\ crashed' = TRUE
    /\ last' = Panicked("nonmessage", from, 0, 0, "nil_deref")
    /\ UNCHANGED <<whiteList, table, currentPost, cache, now, skippedAt>>
    /\ msgText' = NoText
    /\ UNCHANGED awaiting
    /\ UNCHANGED im

\* msg.Text of the commands that do nothing else
CommandReply(cmd) ==
    CASE cmd = "start" -> "Hi!"
      [] cmd = "help" -> "I understand /sayhi and /status."
      [] cmd = "status" -> "I'm ok."
      [] OTHER -> "I don't know that command"

\* variant of the plain commands that resets the slot
PlainCommand_ClearsSlot(from, cmd, sendOk) ==
    /\ ~crashed
    /\ IDContains(whiteList, from)
    /\ last' = Obs(cmd, from, CommandReply(cmd), Nil, FALSE, SendResult(sendOk), 0, 0, "none")
    /\ crashed' = SendPanics(sendOk)
    /\ currentPost' = Nil
    /\ UNCHANGED <<whiteList, table, cache, now, skippedAt>>
    /\ msgText' = NoText
    /\ UNCHANGED awaiting
    /\ UNCHANGED im

\* case "start", "help", "status", default: only msg.Text is set
PlainCommand(from, cmd, sendOk) ==
    /\ ~crashed
    /\ IDContains(whiteList, from)
    /\ last' = Obs(cmd, from, CommandReply(cmd), Nil, FALSE, SendResult(sendOk), 0, 0, "none")
    /\ crashed' = SendPanics(sendOk)
    /\ UNCHANGED <<whiteList, table, currentPost, cache, now, skippedAt>>
    /\ msgText' = NoText
    /\ UNCHANGED awaiting
    /\ UNCHANGED im

CmdStart(from, sendOk) == PlainCommand(from, "start", sendOk)

CmdHelp(from, sendOk) == PlainCommand(from, "help", sendOk)

CmdStatus(from, sendOk) == PlainCommand(from, "status", sendOk)

CmdUnknown(from, sendOk) == PlainCommand(from, "unknown_command", sendOk)

\* case "getpost"
CmdGetPost(from, queryOk, sendOk) ==
    /\ ~crashed
    /\ IDContains(whiteList, from)
    /\ IF ~queryOk
       THEN \* if err != nil { log.Panic(err) }
            /\ crashed' = TRUE
            /\ last' = Panicked("getpost", from, 1, 0, "query_failed")
            /\ UNCHANGED <<currentPost, awaiting>>
       ELSE LET sel == SelectPost(GetRecords(table), cache, currentPost) IN
            IF sel = Nil
            THEN \* currentPost.Fields["Title"] on a nil *airtable.Record
                 /\ crashed' = TRUE
                 /\ last' = Panicked("getpost", from, 1, 0, "nil_deref")
                 /\ UNCHANGED <<currentPost, awaiting>>
            ELSE /\ currentPost' = sel
                 /\ awaiting' = sel
                 /\ last' = Obs("getpost", from, "post", sel, TRUE, SendResult(sendOk), 1, 0, "none")
                 /\ crashed' = SendPanics(sendOk)
    /\ UNCHANGED <<whiteList, table, cache, now, skippedAt>>
    /\ msgText' = NoText
    /\ UNCHANGED im

\* currentPost.UpdateRecordPartial(changedFields): a successful PATCH
\* overwrites the fields named in the map and keeps the others of that
\* record; a failed one leaves the table as it was
UpdateRecordPartial(tbl, id, changedFields, ok) ==
    IF ok
    THEN [tbl EXCEPT ![id] = [f \in DOMAIN tbl[id] |->
              IF f \in DOMAIN changedFields THEN changedFields[f] ELSE tbl[id][f]]]
    ELSE tbl

\* variant of the approve map that leaves IsRejected as it is
ApproveFields_OnlyApproved == [IsApproved |-> TRUE, ToInvistigate |-> FALSE]

\* map[string]any{"IsApproved": true, "IsRejected": false, "ToInvistigate": false}
ApproveFields == [IsApproved |-> TRUE, IsRejected |-> FALSE, ToInvistigate |-> FALSE]

\* variant of the reject map that leaves IsApproved as it is
RejectFields_OnlyRejected == [IsRejected |-> TRUE, ToInvistigate |-> FALSE]

\* map[string]any{"IsRejected": true, "IsApproved": false, "ToInvistigate": false}
RejectFields == [IsRejected |-> TRUE, IsApproved |-> FALSE, ToInvistigate |-> FALSE]

\* variant of the error branch that keeps the slot
SlotAfterUpdate_Keep(cur, ok) == cur

\* if err != nil { ...; msg.Text = error text; currentPost = nil }
SlotAfterUpdate(cur, ok) == IF ok THEN cur ELSE Nil

ReplyAfterUpdate(okText, ok) == IF ok THEN okText ELSE "error"

\* case buttons.ApproveButton.Text() / buttons.RejectButton.Text()
Decide(from, kind, fields, okText, updateOk, sendOk) ==
    /\ ~crashed
    /\ IDContains(whiteList, from)
    /\ IF currentPost = Nil
       THEN \* UpdateRecordPartial reads r.ID of a nil *airtable.Record
            /\ crashed' = TRUE
            /\ last' = Panicked(kind, from, 0, 0, "nil_deref")
            /\ UNCHANGED <<table, currentPost>>
            /\ awaiting' = Nil
       ELSE /\ table' = UpdateRecordPartial(table, currentPost, fields, updateOk)
            /\ currentPost' = SlotAfterUpdate(currentPost, updateOk)
            /\ awaiting' = Nil
            /\ last' = Obs(kind, from, ReplyAfterUpdate(okText, updateOk), Nil, FALSE,
                           SendResult(sendOk), 0, 1,
                           IF updateOk THEN "none" ELSE "update_failed")
            /\ crashed' = SendPanics(sendOk)
    /\ UNCHANGED <<whiteList, cache, now, skippedAt>>
    /\ UNCHANGED im

TextApprove(from, updateOk, sendOk) ==
    Decide(from, "approve", ApproveFields, "approved", updateOk, sendOk)

TextReject(from, updateOk, sendOk) ==
    Decide(from, "reject", RejectFields, "rejected", updateOk, sendOk)

\* case buttons.SkipButton.Text()
TextSkip(from, sendOk) ==
    /\ ~crashed
    /\ IDContains(whiteList, from)
    /\ IF currentPost = Nil
       THEN \* currentPost.Fields["guid"] on a nil *airtable.Record
            /\ crashed' = TRUE
            /\ last' = Panicked("skip", from, 0, 0, "nil_deref")
            /\ UNCHANGED <<currentPost, cache, skippedAt>>
            /\ awaiting' = Nil
       ELSE /\ cache' = CacheSet(cache, currentPost, now)
            /\ skippedAt' = [skippedAt EXCEPT ![currentPost] = now]
            /\ currentPost' = Nil
            /\ awaiting' = Nil
            /\ last' = Obs("skip", from, "skipped", Nil, FALSE, SendResult(sendOk), 0, 0, "none")
            /\ crashed' = SendPanics(sendOk)
    /\ UNCHANGED <<whiteList, table, now>>
    /\ UNCHANGED im

\* variant of the default branch that is reached without the white-list test
TextOther_NoAuth(from, sendOk) ==
    /\ ~crashed
    /\ currentPost' = Nil
    /\ awaiting' = Nil
    /\ last' = Obs("other_text", from, "unsupported", Nil, FALSE, SendResult(sendOk), 0, 0, "none")
    /\ crashed' = SendPanics(sendOk)
    /\ UNCHANGED <<whiteList, table, cache, now, skippedAt>>
    /\ UNCHANGED im

\* default: msg.Text = "button not supported"; currentPost = nil
TextOther(from, sendOk) ==
    /\ ~crashed
    /\ IDContains(whiteList, from)
    /\ currentPost' = Nil
    /\ awaiting' = Nil
    /\ last' = Obs("other_text", from, "unsupported", Nil, FALSE, SendResult(sendOk), 0, 0, "none")
    /\ crashed' = SendPanics(sendOk)
    /\ UNCHANGED <<whiteList, table, cache, now, skippedAt>>
    /\ UNCHANGED im

\* ------------------------------------------------------------ background
\* the wall clock advances; the program reads it only through the expiry of
\* cached items, so it is followed while the process runs and an item is cached
Tick ==
    /\ ~crashed
    /\ DOMAIN cache # {}
    /\ now < MaxTime
    /\ now' = now + TickStep
    /\ last' = Obs("tick", 0, NoReply, Nil, FALSE, "none", 0, 0, "none")
    /\ UNCHANGED <<whiteList, table, currentPost, cache, crashed, skippedAt>>
    /\ msgText' = NoText
    /\ UNCHANGED awaiting
    /\ UNCHANGED im

\* go cache.Start(): the sweeper deletes the items that have expired
Sweep ==
    /\ ~crashed
    /\ \E k \in DOMAIN cache : IsExpired(cache, k, now)
    /\ cache' = [k \in {j \in DOMAIN cache : ~IsExpired(cache, j, now)} |-> cache[k]]
    /\ last' = Obs("sweep", 0, NoReply, Nil, FALSE, "none", 0, 0, "none")
    /\ UNCHANGED <<whiteList, table, currentPost, now, crashed, skippedAt>>
    /\ msgText' = NoText
    /\ UNCHANGED awaiting
    /\ UNCHANGED im

\* switch update.Message.Text { ... }: the first case whose label equals the
\* text, the default branch if none does
BranchOf(text) ==
    IF CaseMatches(text, ButtonText(ApproveButton)) THEN "approve"
    ELSE IF CaseMatches(text, ButtonText(RejectButton)) THEN "reject"
    ELSE IF CaseMatches(text, ButtonText(SkipButton)) THEN "skip"
    ELSE "other_text"

\* the outcomes of UpdateRecordPartial to tell apart: the call is made in the
\* approve and reject branches only
UpdateOutcomes(text) == IF BranchOf(text) \in {"approve", "reject"} THEN BOOLEAN ELSE {TRUE}

\* } else { log.Printf("got text: %s", update.Message.Text); switch ... }
TextMessage(from, text, updateOk, sendOk) ==
    \/ BranchOf(text) = "approve" /\ msgText' = text /\ TextApprove(from, updateOk, sendOk)
    \/ BranchOf(text) = "reject" /\ msgText' = text /\ TextReject(from, updateOk, sendOk)
    \/ BranchOf(text) = "skip" /\ msgText' = text /\ TextSkip(from, sendOk)
    \/ BranchOf(text) = "other_text" /\ msgText' = text /\ TextOther(from, sendOk)

Next ==
    \/ NoChatUpdate
    \/ \E from \in Senders : DropUnknownUser(from)
    \/ \E from \in Senders : NonMessageUpdate(from)
    \/ \E from \in Senders, sendOk \in BOOLEAN : CmdStart(from, sendOk)
    \/ \E from \in Senders, sendOk \in BOOLEAN : CmdHelp(from, sendOk)
    \/ \E from \in Senders, sendOk \in BOOLEAN : CmdStatus(from, sendOk)
    \/ \E from \in Senders, sendOk \in BOOLEAN : CmdUnknown(from, sendOk)
    \/ \E from \in Senders, queryOk \in BOOLEAN, sendOk \in BOOLEAN : CmdGetPost(from, queryOk, sendOk)
    \/ \E from \in Senders, text \in Texts, sendOk \in BOOLEAN :
           \E updateOk \in UpdateOutcomes(text) : TextMessage(from, text, updateOk, sendOk)
    \/ Tick
    \/ Sweep

Spec == Init /\ [][Next]_vars

TypeOK ==
    /\ currentPost \in Ids \cup {Nil}
    /\ DOMAIN cache \subseteq Ids
    /\ now \in 0..MaxTime
    /\ crashed \in BOOLEAN
    /\ table \in [Ids -> Fields]
    /\ msgText \in Texts \cup {NoText}
    /\ awaiting \in Ids \cup {Nil}

\* ------------------------------------------------------------ IndexMgr
\* im := IndexMgr{From: 0, To: maxUpdates, Last: last}; if im.To > last { im.To = last }
NewIndexMgr(total) ==
    [From |-> 0, To |-> IF maxUpdates > total THEN total ELSE maxUpdates, Last |-> total]

\* variant of next that does not clamp To
next_NoClamp(m) == [m EXCEPT !.From = m.From + maxUpdates, !.To = m.To + maxUpdates]

\* im.From += maxUpdates; im.To += maxUpdates; if im.To > im.Last { im.To = im.Last }
next(m) ==
    [m EXCEPT !.From = m.From + maxUpdates,
              !.To = IF m.To + maxUpdates > m.Last THEN m.Last ELSE m.To + maxUpdates]

\* the fields of im that make the IndexMgr
ImStruct == [From |-> im.From, To |-> im.To, Last |-> im.Last]

\* a batch loop is about to run over a slice of n records; the bot itself is
\* left in its state after start-up
IndexInit ==
    /\ whiteList = EnvNew(<<1>>)
    /\ table = [i \in Ids |-> [IsApproved |-> FALSE, IsRejected |-> FALSE, ToInvistigate |-> FALSE]]
    /\ currentPost = Nil
    /\ cache = EmptyCache
    /\ now = 0
    /\ crashed = FALSE
    /\ last = Obs("init", 0, NoReply, Nil, FALSE, "none", 0, 0, "none")
    /\ skippedAt = [i \in Ids |-> -1]
    /\ msgText = NoText
    /\ awaiting = Nil
    /\ \E n \in 0..MaxOrders : im = [ImIdle EXCEPT !.pc = "start", !.n = n]

\* indxer := NewIndexMgr(len(newOrders))
BatchStart ==
    /\ im.pc = "start"
    /\ LET m == NewIndexMgr(im.n) IN
       im' = [im EXCEPT !.pc = "loop", !.From = m.From, !.To = m.To, !.Last = m.Last]
    /\ UNCHANGED botVars

\* for indxer.From < len(newOrders) { send newOrders[indxer.From:indxer.To];
\*   if err != nil { log.Panicln(...) }; indxer.next() }
BatchSend(ok) ==
    /\ im.pc = "loop"
    /\ im.From < im.n
    /\ IF ok
       THEN LET m == next(ImStruct) IN
            im' = [im EXCEPT !.From = m.From, !.To = m.To, !.Last = m.Last,
                             !.used = Append(im.used, <<im.From, im.To>>)]
       ELSE im' = [im EXCEPT !.pc = "failed", !.used = Append(im.used, <<im.From, im.To>>)]
    /\ UNCHANGED botVars

\* the loop test fails: the results are printed
BatchDone ==
    /\ im.pc = "loop"
    /\ ~(im.From < im.n)
    /\ im' = [im EXCEPT !.pc = "done"]
    /\ UNCHANGED botVars

IndexNext ==
    \/ BatchStart
    \/ \E ok \in BOOLEAN : BatchSend(ok)
    \/ BatchDone

\* the loop is straight-line code of one goroutine: it keeps running
IndexSpec == IndexInit /\ [][IndexNext]_vars /\ WF_vars(IndexNext)

\* ============================================================ properties
DecisionKinds == {"approve", "reject", "skip"}

BackgroundKinds == {"init", "tick", "sweep"}

\* the guids a fetch may take: in the view and not in the skip cache
Eligible(tbl, c) == {i \in Ids : FilterFormula(tbl[i]) /\ i \notin DOMAIN c}

\* the step did not die in bot.Send
SendDidNotFail(obs) == obs.sent # "failed"

\* C1: a decision event (approve, reject, skip) of an authorized sender that
\* finds the slot empty replies "unsupported", issues no Airtable call, adds
\* nothing to the skip cache and does not crash the process.
C1_EmptySlotDecisionUnsupported ==
    [][(last'.kind \in DecisionKinds /\ currentPost = Nil)
        => /\ last'.reply = "unsupported"
           /\ last'.queries = 0 /\ last'.updates = 0
           /\ DOMAIN cache' = DOMAIN cache
           /\ (SendDidNotFail(last') => ~crashed')]_vars

\* C2: a getpost whose query succeeds but yields no eligible record replies
\* "none available", leaves the slot unset and does not crash, whatever the
\* slot held before.
C2_NoEligibleReported ==
    [][(last'.kind = "getpost" /\ last'.fault # "query_failed" /\ Eligible(table, cache) = {})
        => /\ last'.reply = "none_available"
           /\ currentPost' = Nil
           /\ (SendDidNotFail(last') => ~crashed')]_vars

\* C3: after every decision event (approve or reject, succeeding or failing,
\* skip, unrecognized text) the slot is empty.
C3_SlotClearedAfterDecision ==
    last.kind \in DecisionKinds \cup {"other_text"} => currentPost = Nil

\* C4: the record a fetch selects is not in the skip cache when it is
\* selected, and a non-empty slot never holds a guid that is in the cache.
C4_SlotNotInSkipCache ==
    currentPost # Nil => ~CacheHas(cache, currentPost)

\* a fetch has just passed over a skipped, still unprocessed record and taken
\* a later one
C4_Witness ==
    /\ last.kind = "getpost" /\ last.shown = currentPost /\ currentPost # Nil
    /\ \E k \in DOMAIN cache : k < currentPost /\ FilterFormula(table[k])

\* C5: a fetch that selects a record skipped at time t is issued at t + 24h
\* or later; after the entry has expired the record can be selected again.
C5_SkippedExcludedForTTL ==
    [][(last'.kind = "getpost" /\ last'.fault = "none" /\ skippedAt[currentPost'] # -1)
        => now >= skippedAt[currentPost'] + TTL]_vars

\* a record that was skipped has been selected again by a later fetch
C5_Witness ==
    /\ last.kind = "getpost" /\ last.fault = "none" /\ last.shown = currentPost
    /\ skippedAt[currentPost] # -1
    /\ now >= skippedAt[currentPost] + TTL

\* C6: an update whose sender is not in the white list causes no outbound
\* call (no message, no query, no update) and changes neither the slot, the
\* skip cache nor the table.
C6_UnauthorizedNoEffect ==
    [][(last'.kind \notin BackgroundKinds \cup {"nochat"} /\ ~last'.authorized)
        => /\ last'.sent = "none" /\ last'.reply = NoReply
           /\ last'.queries = 0 /\ last'.updates = 0
           /\ UNCHANGED <<currentPost, cache, table, crashed>>]_vars

\* an update of a sender outside the white list was dropped while a post was
\* pending and the skip cache was not empty
C6_Witness ==
    /\ last.kind = "drop" /\ ~last.authorized
    /\ currentPost # Nil /\ DOMAIN cache # {}

\* C7: with a pending candidate and a successful partial update, approve
\* leaves its fields at (approved, rejected, under-investigation) =
\* (true, false, false), reject at (false, true, false), and no other
\* record is changed.
C7_DecisionWritesTriple ==
    [][(last'.kind \in {"approve", "reject"} /\ last'.fault = "none")
        => /\ currentPost # Nil
           /\ last'.kind = "approve" =>
                  /\ table'[currentPost].IsApproved
                  /\ ~table'[currentPost].IsRejected
                  /\ ~table'[currentPost].ToInvistigate
           /\ last'.kind = "reject" =>
                  /\ ~table'[currentPost].IsApproved
                  /\ table'[currentPost].IsRejected
                  /\ ~table'[currentPost].ToInvistigate
           /\ \A j \in Ids \ {currentPost} : table'[j] = table[j]]_vars

\* a reject has succeeded on a record that an earlier approve had marked
\* approved
C7_Witness ==
    /\ last.kind = "reject" /\ last.fault = "none" /\ last.updates = 1
    /\ last.prev # Nil
    /\ table[last.prev] = [IsApproved |-> FALSE, IsRejected |-> TRUE, ToInvistigate |-> FALSE]
    /\ \E j \in Ids \ {last.prev} : table[j].IsApproved

\* C8: a getpost whose query fails reports an error message to the operator,
\* clears the slot and the process goes on.
C8_QueryFailureSurfaced ==
    (last.kind = "getpost" /\ last.fault = "query_failed")
        => /\ last.reply = "error"
           /\ currentPost = Nil
           /\ ~crashed

\* C9: when the partial update of approve or reject fails, the error message
\* is sent in place of the confirmation, the slot is cleared, the table is
\* unchanged, exactly one update was attempted and, the send succeeding, the
\* process goes on.
C9_UpdateFailureHandled ==
    [][(last'.kind \in {"approve", "reject"} /\ last'.fault = "update_failed")
        => /\ last'.reply = "error"
           /\ last'.sent \in {"ok", "failed"}
           /\ currentPost' = Nil
           /\ table' = table
           /\ last'.updates = 1
           /\ (last'.sent = "ok" => ~crashed')]_vars

\* an update failed on a pending candidate, the error was delivered and the
\* process is alive
C9_Witness ==
    /\ last.kind \in {"approve", "reject"} /\ last.fault = "update_failed"
    /\ last.prev # Nil /\ last.sent = "ok" /\ ~crashed /\ currentPost = Nil

\* C10: skip with a pending candidate puts exactly that guid in the skip
\* cache, expiring 24 hours later, clears the slot and writes nothing to
\* the table.
C10_SkipEffect ==
    [][(last'.kind = "skip" /\ last'.fault = "none")
        => /\ currentPost # Nil
           /\ DOMAIN cache' = DOMAIN cache \cup {currentPost}
           /\ cache'[currentPost] = now + TTL
           /\ \A k \in DOMAIN cache \ {currentPost} : cache'[k] = cache[k]
           /\ currentPost' = Nil
           /\ table' = table
           /\ last'.updates = 0 /\ last'.queries = 0]_vars

\* a second record has been skipped while the first is still in the cache
C10_Witness ==
    /\ last.kind = "skip" /\ last.fault = "none" /\ last.prev # Nil
    /\ last.prev \in DOMAIN cache /\ cache[last.prev] = now + TTL
    /\ Cardinality(DOMAIN cache) >= 2
    /\ currentPost = Nil

\* C11: a text message of an authorized sender that equals none of the three
\* button labels clears the slot, replies "unsupported", issues no Airtable
\* call and puts nothing in the skip cache.
C11_UnrecognizedText ==
    [][(msgText' # NoText
          /\ msgText' \notin {ButtonText(ApproveButton), ButtonText(RejectButton), ButtonText(SkipButton)})
        => /\ last'.kind = "other_text"
           /\ last'.authorized
           /\ currentPost' = Nil
           /\ last'.reply = "unsupported"
           /\ last'.queries = 0 /\ last'.updates = 0
           /\ table' = table
           /\ cache' = cache]_vars

\* the word of the approve label without its emoji was sent while a post was
\* pending and took the default branch
C11_Witness ==
    /\ msgText = <<"", "Approve">>
    /\ last.kind = "other_text" /\ last.prev # Nil /\ currentPost = Nil
    /\ last.reply = "unsupported" /\ last.sent = "ok"

\* C12: every partial update is issued in the "awaiting decision" state: the
\* record it writes was shown by a fetch and no decision event (approve,
\* reject, skip, unrecognized text) has been handled since that fetch.
C12_UpdateOnlyWhenAwaiting ==
    [][last'.updates = 1 => (awaiting # Nil /\ awaiting = currentPost)]_vars

\* C13: a fetch whose result holds a record that is not in the skip cache
\* sets the slot to the first such record in the order of the result: every
\* record before it is in the cache, and no later one is taken.
C13_FirstEligibleSelected ==
    [][(last'.kind = "getpost" /\ last'.fault # "query_failed" /\ Eligible(table, cache) # {})
        => LET recs == GetRecords(table) IN
           \E i \in 1..Len(recs) :
              /\ currentPost' = recs[i]
              /\ recs[i] \notin DOMAIN cache
              /\ \A j \in 1..(i - 1) : recs[j] \in DOMAIN cache]_vars

\* a fetch had at least two records to choose from and has shown one
C13_Witness ==
    /\ last.kind = "getpost" /\ last.fault = "none"
    /\ last.shown = currentPost /\ currentPost # Nil
    /\ Cardinality(Eligible(table, cache)) >= 2

\* C14: a fetch issued while a post is pending overwrites it: the slot then
\* holds the record the second fetch selected, and the fetch writes nothing
\* to the table and puts nothing in the skip cache for the replaced post.
C14_SecondFetchOverwrites ==
    [][(last'.kind = "getpost" /\ last'.fault # "query_failed" /\ currentPost # Nil
          /\ Eligible(table, cache) # {})
        => /\ currentPost' \in Eligible(table, cache)
           /\ \A k \in Eligible(table, cache) : currentPost' <= k
           /\ last'.shown = currentPost'
           /\ last'.updates = 0
           /\ table' = table
           /\ cache' = cache]_vars

\* a pending, still undecided post has been replaced by another record
C14_Witness ==
    /\ last.kind = "getpost" /\ last.fault = "none"
    /\ last.prev # Nil /\ currentPost # Nil /\ last.prev # currentPost
    /\ FilterFormula(table[last.prev]) /\ last.prev \notin DOMAIN cache

\* C15: however the sweeper interleaves with the handlers, an entry leaves
\* the skip cache only in a sweeper step and only once its expiresAt, 24
\* hours after the skip, has passed; the entries that stay keep their expiry
\* unless the step is a skip; a sweeper step changes neither the slot nor
\* the table.
C15_OnlySweeperRemovesExpired ==
    [][/\ \A k \in DOMAIN cache :
            /\ k \notin DOMAIN cache' =>
                   /\ last'.kind = "sweep"
                   /\ now > cache[k]
                   /\ now >= skippedAt[k] + TTL
            /\ (k \in DOMAIN cache' /\ last'.kind # "skip") => cache'[k] = cache[k]
       /\ last'.kind = "sweep" => UNCHANGED <<currentPost, table>>]_vars

\* the sweeper has removed the entry of a skipped record while another post
\* was pending
C15_Witness ==
    /\ last.kind = "sweep" /\ currentPost # Nil
    /\ \E k \in Ids : skippedAt[k] # -1 /\ k \notin DOMAIN cache /\ k # currentPost

\* C16: a failed bot.Send is fatal: the process aborts in that step and
\* nothing happens afterwards (no event is handled, no Airtable call, no
\* change of the slot or of the skip cache).
C16_SendFailureFatal ==
    [][/\ last'.sent = "failed" => crashed'
       /\ last.sent = "failed" => UNCHANGED vars]_vars

\* the send of a reply failed while a post was pending and skipped guids
\* were cached
C16_Witness ==
    /\ last.sent = "failed" /\ crashed
    /\ currentPost # Nil /\ DOMAIN cache # {}

\* C17: start, help, status and an unrecognized command of an authorized
\* sender hand exactly one text, without keyboard, to bot.Send (the "unknown
\* command" text for an unrecognized command) and leave the slot, the skip
\* cache and the table unchanged.
C17_PlainCommandsOnlyReply ==
    [][last'.kind \in {"start", "help", "status", "unknown_command"}
        => /\ last'.authorized
           /\ last'.sent \in {"ok", "failed"}
           /\ last'.reply = CommandReply(last'.kind)
           /\ (last'.kind = "unknown_command" => last'.reply = "I don't know that command")
           /\ ~last'.keyboard
           /\ last'.queries = 0 /\ last'.updates = 0
           /\ UNCHANGED <<currentPost, cache, table>>]_vars

\* an unrecognized command was answered while a post was pending and the
\* post is still pending
C17_Witness ==
    /\ last.kind = "unknown_command" /\ last.sent = "ok"
    /\ last.prev # Nil /\ currentPost = last.prev
    /\ DOMAIN cache # {}

\* C18: the table starting without a record that is both approved and
\* rejected, no record is ever both approved and rejected, and the record a
\* successful approve or reject has just written is not under investigation.
C18_NeverApprovedAndRejected ==
    /\ \A i \in Ids : ~(table[i].IsApproved /\ table[i].IsRejected)
    /\ (last.kind \in {"approve", "reject"} /\ last.fault = "none")
           => ~table[last.prev].ToInvistigate

\* an approve has succeeded on the pending record while another record is
\* rejected
C18_Witness ==
    /\ last.kind = "approve" /\ last.fault = "none" /\ last.prev # Nil
    /\ table[last.prev].IsApproved
    /\ \E j \in Ids \ {last.prev} : table[j].IsRejected

\* C19: the white list holds exactly the integers of TELEGRAM_WHITELIST, so
\* that chat id 0, which is not configured, is never treated as authorized.
C19_WhiteListExact ==
    /\ whiteList \in Configs
    /\ ~IDContains(whiteList, 0)

\* the intervals used so far are non-empty, at most maxUpdates long, inside
\* 0..n, start at 0 and follow one another without gap or overlap
IntervalsInOrder(used, n) ==
    \A i \in 1..Len(used) :
       /\ used[i][1] < used[i][2]
       /\ used[i][2] - used[i][1] <= maxUpdates
       /\ used[i][2] <= n
       /\ used[i][1] = (IF i = 1 THEN 0 ELSE used[i - 1][2])

\* the intervals reach the end of the slice
IntervalsCover(used, n) ==
    IF n = 0 THEN used = <<>> ELSE Len(used) > 0 /\ used[Len(used)][2] = n

\* C20: for every n >= 0 the loop over NewIndexMgr(n) terminates, and the
\* intervals [From, To) it uses are non-empty, at most maxUpdates long,
\* contiguous and non-overlapping, and cover exactly 0..n-1 when it ends.
C20_IndexMgrBatches ==
    /\ [](IntervalsInOrder(im.used, im.n))
    /\ [](im.pc = "done" => IntervalsCover(im.used, im.n))
    /\ <>(im.pc \in {"done", "failed"})

\* 18 records have been sent as 0,10 then 10,18
C20_Witness ==
    /\ im.pc = "done" /\ im.n = 18
    /\ im.used = << <<0, 10>>, <<10, 18>> >>

====
